---- MODULE Spec2Model ----
(***************************************************************************)
(* State-machine model of the arbitrum-v3-bot liquidity manager.           *)
(*                                                                         *)
(* The repository holds four entry points that share the same helpers:     *)
(*   "bot"   - the block-driven scheduler (part_000: initialize,           *)
(*             setupEventListeners, onNewBlock) calling executeFullRebalance*)
(*             (part_003);                                                 *)
(*   "cycle" - the five-minute loop (part_002: main, runLifeCycle) calling *)
(*             atomicExitPosition / rebalancePortfolio / mintMaxLiquidity   *)
(*             of part_004, which wait through waitWithTimeout;            *)
(*   "mono"  - the single-file loop (part_003: main, runLifeCycle) with    *)
(*             findOrphanedPosition and executeFullRebalance.              *)
(*   "legacy"- the older single-file loop (part_003:1-394), whose          *)
(*             executeFullRebalance computes the range from the pool        *)
(*             snapshot taken at the start of the cycle.                   *)
(* `program` is fixed in the initial state and selects the entry point.    *)
(*                                                                         *)
(* One action is one macrotask of the JavaScript event loop: the code that *)
(* runs from the completion of one awaited I/O up to the next awaited I/O  *)
(* (promise continuations that need no I/O run in the same action).        *)
(***************************************************************************)
EXTENDS Integers, Sequences, FiniteSets, TLC

\* ------------------------------------------------------------- bounds
MaxTriggers == 2        \* block events / loop cycles delivered in one run
NSlots == 2             \* handler invocations that can be alive at once
MaxClock == 1           \* clock advances in one run
MaxReconnects == 1      \* transport reconnects in one run

\* -------------------------------------------------- program constants
HEDGE_CHECK_INTERVAL_MS == 60000
WIDTH == 2000
MIN_TICK == -887272
MAX_TICK == 887272
TickSpacing == 60
LEGACY_WIDTH == 1000

\* How many ticks at each end of the tick axis the range computation is tried on.
EdgeSpan == 2200

\* The largest MAX_RETRIES and the largest retries argument withRetry is tried with.
MaxRetries == 3

RETRY_BASE_MS == 1000               \* part_004:231  1000 * (...)

\* How many times saveState is called on the state file on its own.
MaxSaves == 2

\* The entry points written as one file with findOrphanedPosition.
Monolith == {"mono", "legacy"}

\* Amounts are integers: USDC in cents, WETH in millionths of a WETH.
MIN_SWAP_USDC == 200                \* part_003:678  Math.abs(usdcDiff) < 2
SLIPPAGE_BPS == 50                  \* part_003:686  new Percent(50, 10_000)
CYCLE_MIN_SELL_USDC == 500          \* part_004:110  amountToSell < 5
CYCLE_MIN_SELL_WETH == 2000         \* part_004:140  amountToSell < 0.002

Slots == 1..NSlots
PoolTicks == {2040, 8040}           \* ticks the pool is observed at
Pairs == 1..4                       \* (token, spender) pairs of approveAll
None == 0                           \* tokenId "0": no position

VARIABLES
    program,        \* "bot" | "cycle" | "mono" | "legacy"
    isProcessing,   \* part_000:32  reentrancy guard
    isSafeMode,     \* part_000:36
    lastHedgeTime,  \* part_000:33
    listeners,      \* number of "block" listeners bound on the provider
    stateFile,      \* bot_state.json: [tokenId, lastCheck]
    now,            \* Date.now()
    tick,           \* pool slot0.tick
    owned,          \* position tokens of the wallet, in enumeration order
    pos,            \* ledger positions: id -> [liq, owed, tl, tu]
    nextTokenId,    \* id the position manager gives to the next mint
    allowance,      \* (token, spender) pairs with a non-zero allowance
    mempool,        \* submitted, unsettled transactions in nonce order
    nextNonce,      \* NonceManager's next nonce
    pc,             \* per slot: the await the invocation is suspended at
    loc,            \* per slot: local variables of the invocation
    nTrig,          \* triggers delivered so far
    lastTrig,       \* what the latest trigger did
    nReconnect,     \* reconnects so far
    nHedge,         \* calls of adjustHedge so far
    hedgeAt,        \* the time of the latest call of adjustHedge (-1: none yet)
    alerts,         \* calls of sendEmailAlert so far
    mintLost,       \* a mint confirmed and its identifier could not be parsed
    owned0,         \* the number of position tokens the account owned at the start
    lastEval,       \* summary of the latest finished invocation
    range,          \* a range computation on its own: inputs and results
    retry,          \* a call of withRetry on its own
    disk            \* the state file on its own: bytes on disk and the calls on it

sched == <<isProcessing, isSafeMode, lastHedgeTime, listeners>>
ledger == <<tick, owned, pos, nextTokenId, allowance>>
chain == <<mempool, nextNonce>>
\* The units checked on their own: the range computation, withRetry and the
\* state file.
units == <<range, retry, disk>>
hist == <<nTrig, lastTrig, nReconnect, nHedge, hedgeAt, alerts, mintLost, owned0, units>>
progvars == <<program, isProcessing, isSafeMode, lastHedgeTime, listeners, stateFile,
          now, tick, owned, pos, nextTokenId, allowance, mempool, nextNonce,
          pc, loc, nTrig, lastTrig, nReconnect, nHedge, hedgeAt, alerts, mintLost, owned0, lastEval>>
vars == <<progvars, range, retry, disk>>

\* ------------------------------------------------------------ helpers
FloorDiv(a, b) == a \div b
CeilDiv(a, b) == -((-a) \div b)

\* Locals of an invocation that is not running.
NoLoc == [tokenId |-> None, old |-> None, k |-> 0, snap |-> 0, ntick |-> 0, wait |-> 0,
          rcpt |-> "none", newId |-> None, ops |-> <<>>, exitFailed |-> FALSE,
          before |-> None, path |-> "none", verdict |-> "none", afterError |-> FALSE,
          bal |-> [usdc |-> 0, weth |-> 0]]

NoEval == [res |-> "none", err |-> "none"]

\* The units at rest while the program runs.
NoRange == [impl |-> "none", t |-> 0, sp |-> 1, n |-> 0, first |-> <<0, 0>>, second |-> <<0, 0>>]
NoRetry == [st |-> "none", max |-> 0, arg |-> 0, retries |-> 0, calls |-> 0,
            errors |-> <<>>, delays |-> <<>>, result |-> 0,
            thrown |-> [attempt |-> 0, kind |-> "none"]]
NoDisk == [st |-> "none", exists |-> FALSE, readable |-> TRUE, bytes |-> <<>>,
           pending |-> <<>>, target |-> <<>>, before |-> <<>>, saves |-> 0,
           loads |-> 0, loaded |-> [type |-> "none", tokenId |-> "none", lastCheck |-> "none"],
           loadedBytes |-> <<>>]

SeqToSet(s) == {s[i] : i \in 1..Len(s)}
RemoveId(s, id) == SelectSeq(s, LAMBDA x : x # id)

\* ------------------------------------------------- range computation
\* An upper bound rounded from one tick short of the window's end.
RawUpperShort(t, sp) == FloorDiv(t + WIDTH - 1, sp) * sp

\* An upper bound rounded from the tick itself, the width left out.
RawUpperNoWidth(t, sp) == FloorDiv(t, sp) * sp

\* part_003:917-918
RawLower(t, sp) == FloorDiv(t - WIDTH, sp) * sp
RawUpper(t, sp) == FloorDiv(t + WIDTH, sp) * sp

\* part_003:920-933: clamp to the global limits, widen an empty window, normalise
ClampNormalize(l, u, sp) ==
    LET l1 == IF l < MIN_TICK THEN CeilDiv(MIN_TICK, sp) * sp ELSE l
        u1 == IF u > MAX_TICK THEN FloorDiv(MAX_TICK, sp) * sp ELSE u
        u2 == IF l1 = u1 THEN u1 + sp ELSE u1
        hit == u2 > MAX_TICK
        u3 == IF hit THEN FloorDiv(MAX_TICK, sp) * sp ELSE u2
        l3 == IF hit THEN u3 - sp ELSE l1
    IN  IF l3 > u3 THEN <<u3, l3>> ELSE <<l3, u3>>

\* executeFullRebalance's range for the tick read after the swap
ComputeRange(t, sp) == ClampNormalize(RawLower(t, sp), RawUpper(t, sp), sp)

\* part_002:87-90 / 126-129: runLifeCycle's range (no clamp)
CycleRange(t, sp) ==
    LET l == RawLower(t, sp)
        u0 == RawUpper(t, sp)
        u == IF l = u0 THEN u0 + sp ELSE u0
    IN  IF l > u THEN <<u, l>> ELSE <<l, u>>

\* part_003:279-285: the older executeFullRebalance's range (narrower, no clamp)
LegacyRange(t, sp) ==
    LET l == FloorDiv(t - LEGACY_WIDTH, sp) * sp
        u0 == FloorDiv(t + LEGACY_WIDTH, sp) * sp
        u == IF l = u0 THEN u0 + sp ELSE u0
    IN  IF l > u THEN <<u, l>> ELSE <<l, u>>

RangeOf(t) == CASE program = "cycle" -> CycleRange(t, TickSpacing)
                [] program = "legacy" -> LegacyRange(t, TickSpacing)
                [] OTHER -> ComputeRange(t, TickSpacing)

\* ------------------------------------------------------ initial state
\* The process starts with the module-level flags of part_000:32-36, a state
\* file left by an earlier run and a wallet that owns nothing, the position of
\* an earlier run, or (with the state file lost) two positions of earlier runs
\* in the ledger's enumeration order.
InitPos == [liq |-> 1, owed |-> 0,
            tl |-> ComputeRange(2040, TickSpacing)[1],
            tu |-> ComputeRange(2040, TickSpacing)[2]]

\* A position whose liquidity was withdrawn and not collected by an earlier run.
DrainedPos == [liq |-> 0, owed |-> 1,
               tl |-> ComputeRange(8040, TickSpacing)[1],
               tu |-> ComputeRange(8040, TickSpacing)[2]]

Init ==
    /\ program \in {"bot", "cycle", "mono", "legacy"}
    /\ isProcessing = FALSE
    /\ isSafeMode = FALSE
    /\ lastHedgeTime = 0
    /\ listeners = 0
    /\ stateFile \in {[tokenId |-> None, lastCheck |-> 0], [tokenId |-> 1, lastCheck |-> 0]}
    /\ now = HEDGE_CHECK_INTERVAL_MS
    /\ tick \in PoolTicks
    /\ \E n \in 0..2 :
          /\ n = 2 => stateFile.tokenId = None
          /\ owned = CASE n = 0 -> <<>> [] n = 1 -> <<1>> [] n = 2 -> <<2, 1>>
          /\ \E drained \in BOOLEAN :
                /\ drained => program = "cycle" /\ n = 1
                /\ pos = [i \in SeqToSet(owned) |-> IF drained THEN DrainedPos ELSE InitPos]
          /\ nextTokenId = IF n = 2 THEN 3 ELSE 2
          /\ owned0 = n
    /\ allowance \in {{}, Pairs}
    /\ mempool = <<>>
    /\ nextNonce = 1
    /\ pc = [s \in Slots |-> IF s = 1 THEN "boot" ELSE "idle"]
    /\ loc = [s \in Slots |-> NoLoc]
    /\ nTrig = 0
    /\ lastTrig = "none"
    /\ nReconnect = 0
    /\ nHedge = 0
    /\ hedgeAt = -1
    /\ alerts = 0
    /\ mintLost = FALSE
    /\ lastEval = NoEval
    /\ range = NoRange
    /\ retry = NoRetry
    /\ disk = NoDisk

\* ------------------------------------------------- state file (state)
\* loadState, part_003:561-571
loadState == stateFile

\* A save that stamps the time and leaves the identifier as it was.
saveStateStale(tokenId) == stateFile' = [tokenId |-> stateFile.tokenId, lastCheck |-> now]

\* saveState, part_003:593-597
saveState(tokenId) == stateFile' = [tokenId |-> tokenId, lastCheck |-> now]

\* A scan that returns the token at the lowest enumeration index.
findOrphanedPositionFirst ==
    IF Len(owned) > 0 THEN owned[1] ELSE None

\* findOrphanedPosition, part_003:573-591
findOrphanedPosition ==
    IF Len(owned) > 0 THEN owned[Len(owned)] ELSE None

\* ------------------------------------------------ control-flow pieces
Goto(s, p, l) ==
    /\ pc' = [pc EXCEPT ![s] = p]
    /\ loc' = [loc EXCEPT ![s] = l]

\* The end of an evaluation in a handler that releases the guard on the normal
\* path only, with no finally block.
EndEvalAtNoFinally(s, res, err, after) ==
    /\ pc' = [pc EXCEPT ![s] = IF program = "bot" THEN "idle" ELSE "sleep"]
    /\ loc' = [loc EXCEPT ![s] = NoLoc]
    /\ lastEval' = [res |-> res, err |-> err]
    /\ isProcessing' = IF program = "bot" /\ loc[s].path # "init" /\ res # "error"
                       THEN FALSE
                       ELSE isProcessing

\* The invocation in slot s ends (normally or by an error caught at the
\* scheduler boundary).  For the block handler this is the finally clause of
\* part_000:94-96; for the loops it is the return to main's sleep.
EndEvalAt(s, res, err, after) ==
    /\ pc' = [pc EXCEPT ![s] = IF program = "bot" THEN "idle" ELSE "sleep"]
    /\ loc' = [loc EXCEPT ![s] = NoLoc]
    /\ lastEval' = [res |-> res, err |-> err]
    /\ isProcessing' = IF program = "bot" /\ loc[s].path # "init" THEN FALSE
                       ELSE isProcessing

EndEval(s, res, err) == EndEvalAt(s, res, err, stateFile.tokenId)

\* A transaction handed to the node: it joins the mempool under the next nonce.
Submit(kind, id, arg) ==
    /\ mempool' = Append(mempool, [nonce |-> nextNonce, kind |-> kind, id |-> id, arg |-> arg])
    /\ nextNonce' = nextNonce + 1

Issued(l, kind) == [l EXCEPT !.ops = Append(@, kind), !.wait = nextNonce, !.rcpt = "none"]

\* The invocation goes on to its next await.
Stay(s, p, l) ==
    /\ Goto(s, p, l)
    /\ UNCHANGED <<lastEval, isProcessing>>

\* ------------------------------------------------------- environment
\* The pool price moves (other traders).
PriceMove ==
    /\ \E t \in PoolTicks \ {tick} : tick' = t
    /\ UNCHANGED <<program, sched, stateFile, now, owned, pos, nextTokenId, allowance,
                   chain, pc, loc, hist, lastEval>>

\* Wall-clock time passes (a hedge interval at a time).
ClockTick ==
    /\ now < HEDGE_CHECK_INTERVAL_MS * (1 + MaxClock)
    /\ now' = now + HEDGE_CHECK_INTERVAL_MS
    /\ UNCHANGED <<program, sched, stateFile, ledger, chain, pc, loc, hist, lastEval>>

\* A re-bind that also re-initialises the module-level flags.
setupEventListenersReset ==
    /\ listeners' = 1
    /\ isSafeMode' = FALSE
    /\ lastHedgeTime' = 0

\* A re-bind that adds its listener to the ones already bound.
setupEventListenersAdds ==
    /\ listeners' = listeners + 1
    /\ UNCHANGED <<isSafeMode, lastHedgeTime>>

\* setupEventListeners, part_000:74-98: drop every listener, bind one; the
\* module-level flags are not assigned.
setupEventListeners ==
    /\ listeners' = 1
    /\ UNCHANGED <<isSafeMode, lastHedgeTime>>

\* No listener is re-bound in this step.
NoRebind == UNCHANGED <<listeners, isSafeMode, lastHedgeTime>>

\* RobustProvider's reconnect callback, part_000:41-44.
Reconnect ==
    /\ program = "bot"
    /\ listeners > 0
    /\ nReconnect < MaxReconnects
    /\ nReconnect' = nReconnect + 1
    /\ setupEventListeners
    /\ UNCHANGED <<program, isProcessing, stateFile, now,
                   ledger, chain, pc, loc, nTrig, lastTrig, nHedge, hedgeAt, alerts, mintLost, owned0, units,
                   lastEval>>

\* ------------------------------------------------------- approveAll
\* What follows approveAll in its caller.
\*   bot   (initialize, part_000:64-71): orphan scan when the state file holds
\*         "0", then setupEventListeners;
\*   cycle (part_002:51-53) and mono (part_003:972): the pool reads.
AfterApproveAll(s, l) ==
    IF program = "bot"
    THEN IF loadState.tokenId = None
         THEN Stay(s, "orphan", l) /\ NoRebind
         ELSE /\ setupEventListeners
              /\ EndEval(s, "init", "none")
    ELSE Stay(s, "pool", l) /\ NoRebind

NextPair(s, l) ==
    IF l.k < 4
    THEN Stay(s, "apv_read", [l EXCEPT !.k = @ + 1]) /\ NoRebind
    ELSE AfterApproveAll(s, l)

\* initialize, part_000:38-62, up to approveAll's first allowance read.
Boot(s) ==
    /\ program = "bot"
    /\ pc[s] = "boot"
    /\ Stay(s, "apv_read", [NoLoc EXCEPT !.k = 1, !.path = "init",
                                         !.before = stateFile.tokenId])
    /\ UNCHANGED <<program, isSafeMode, lastHedgeTime, listeners, stateFile, now,
                   ledger, chain, hist>>

\* main -> runLifeCycle (part_002:142-152 and 40-49, part_003:1036-1046 and
\* 948-969), up to approveAll's first allowance read.
Wake(s) ==
    /\ program # "bot"
    /\ pc[s] \in {"boot", "sleep"}
    /\ nTrig < MaxTriggers
    /\ nTrig' = nTrig + 1
    /\ lastTrig' = "started"
    /\ Goto(s, "apv_read", [NoLoc EXCEPT !.k = 1, !.path = "cycle",
                                         !.before = stateFile.tokenId,
                                         !.afterError = (lastEval.res = "error")])
    /\ lastEval' = NoEval
    /\ UNCHANGED <<program, sched, stateFile, now, ledger, chain, nReconnect, nHedge, hedgeAt,
                   alerts, mintLost, owned0, units>>

\* checkAndApprove (part_003:613-635) / approveAll's loop body (part_004:29-39):
\* the allowance read returned.
ApvReadDone(s) ==
    /\ pc[s] = "apv_read"
    /\ \/ /\ EndEval(s, "error", "rpc")
          /\ NoRebind
          /\ UNCHANGED chain
       \/ /\ loc[s].k \in allowance
          /\ NextPair(s, loc[s])
          /\ UNCHANGED chain
       \/ /\ loc[s].k \notin allowance
          /\ \/ /\ EndEval(s, "error", "submit")
                /\ NoRebind
                /\ UNCHANGED chain
             \/ /\ Submit("approve", None, <<loc[s].k>>)
                /\ Stay(s, "apv_wait", Issued(loc[s], "approve"))
                /\ NoRebind
    /\ UNCHANGED <<program, stateFile, now, ledger, hist>>

\* The approve transaction's receipt arrived.
ApvWaitDone(s) ==
    /\ pc[s] = "apv_wait"
    /\ loc[s].rcpt # "none"
    /\ IF loc[s].rcpt = "ok"
       THEN NextPair(s, loc[s])
       ELSE EndEval(s, "error", "revert") /\ NoRebind
    /\ UNCHANGED <<program, stateFile, now, ledger, chain, hist>>

\* A listener without the safe-mode check.
SuppressedNever == FALSE

\* ------------------------------------------- the block scheduler (bot)
\* part_000:80: the SAFE_MODE check of the listener
Suppressed == isSafeMode

\* A listener without the reentrancy guard.
BusyNever == FALSE

\* part_000:87: the reentrancy guard of the listener
Busy == isProcessing

\* The "block" listener (part_000:78-91) with the start of onNewBlock
\* (part_000:100-110 and 133), up to its first awaited I/O.
BlockHandler(s) ==
    /\ program = "bot"
    /\ listeners > 0
    /\ nTrig < MaxTriggers
    /\ nTrig' = nTrig + 1
    /\ IF Suppressed
       THEN /\ lastTrig' = "suppressed"
            /\ UNCHANGED <<pc, loc, isProcessing, lastEval>>
       ELSE IF Busy
       THEN /\ lastTrig' = "dropped"
            /\ UNCHANGED <<pc, loc, isProcessing, lastEval>>
       ELSE /\ pc[s] = "idle"
            /\ \A r \in Slots : r < s => pc[r] # "idle"
            /\ lastTrig' = "started"
            /\ isProcessing' = TRUE
            /\ LET id == loadState.tokenId
                   l == [NoLoc EXCEPT !.tokenId = id, !.before = id,
                                      !.path = IF id = None THEN "scan" ELSE "strategy",
                                      !.afterError = (lastEval.res = "error")]
               IN  Goto(s, IF id = None THEN "scan_pool" ELSE "health", l)
            /\ lastEval' = NoEval
    /\ UNCHANGED <<program, isSafeMode, lastHedgeTime, listeners, stateFile, now,
                   ledger, chain, nReconnect, nHedge, hedgeAt, alerts, mintLost, owned0, units>>

\* executeFullRebalance's entry, part_003:839-845
ExecStart(s, l, old) ==
    IF old # None
    THEN Stay(s, "x_pos", [l EXCEPT !.old = old])
    ELSE Stay(s, "r_bal", [l EXCEPT !.old = None])

\* onNewBlock, part_000:107-123: the pool reads of the no-position branch returned.
ScanPoolDone(s) ==
    /\ pc[s] = "scan_pool"
    /\ \/ EndEval(s, "error", "rpc")
       \/ ExecStart(s, [loc[s] EXCEPT !.snap = tick], None)
    /\ UNCHANGED <<program, isSafeMode, lastHedgeTime, listeners, stateFile, now,
                   ledger, chain, hist>>

\* onNewBlock, part_000:133-156: checkHealthAndPanic returned (or threw).
HealthDone(s) ==
    /\ pc[s] = "health"
    /\ \/ /\ EndEval(s, "error", "rpc")
          /\ UNCHANGED alerts
       \/ /\ Stay(s, "alert", [loc[s] EXCEPT !.verdict = "unsafe"])
          /\ alerts' = alerts + 1
       \/ /\ IF now - lastHedgeTime < HEDGE_CHECK_INTERVAL_MS
             THEN EndEval(s, "throttled", "none")
             ELSE Stay(s, "strat_pool", [loc[s] EXCEPT !.verdict = "safe"])
          /\ UNCHANGED alerts
    /\ UNCHANGED <<program, isSafeMode, lastHedgeTime, listeners, stateFile, now,
                   ledger, chain, nTrig, lastTrig, nReconnect, nHedge, hedgeAt, mintLost, owned0, units>>

\* An unsafe verdict that is alerted and then only ends the evaluation.
EnterSafeModeForgets(s) ==
    /\ isSafeMode' = isSafeMode
    /\ EndEval(s, "panic", "none")

\* onNewBlock, part_000:138-139: what follows the alert of the panic branch.
EnterSafeMode(s) ==
    /\ isSafeMode' = TRUE
    /\ EndEval(s, "panic", "none")

\* sendEmailAlert resolved; a delivery failure is logged inside it and not
\* propagated, so the caller goes on either way.
AlertDone(s) ==
    /\ pc[s] = "alert"
    /\ \E delivered \in BOOLEAN : EnterSafeMode(s)
    /\ UNCHANGED <<program, lastHedgeTime, listeners, stateFile, now, ledger, chain, hist>>

\* onNewBlock, part_000:153-168: the pool reads of the strategy path returned.
StratPoolDone(s) ==
    /\ pc[s] = "strat_pool"
    /\ \/ EndEval(s, "error", "rpc")
       \/ Stay(s, "strat_pos", [loc[s] EXCEPT !.snap = tick])
    /\ UNCHANGED <<program, isSafeMode, lastHedgeTime, listeners, stateFile, now,
                   ledger, chain, hist>>

\* The ways the read npm.positions(tokenId) of the schedulers (part_000:168,
\* part_002:99, part_003:1004) fails: the RPC call fails, or the position
\* manager reverts because no such token exists (never minted, or burned).
PositionsErrors(tokenId) ==
    {"rpc"} \cup (IF tokenId \in DOMAIN pos THEN {} ELSE {"Invalid token ID"})

\* A range test with the two bounds exchanged.
isOutOfRangeSwapped(currentTick, p) == currentTick < p.tu \/ currentTick > p.tl

\* The range test of the schedulers: part_000:179, part_002:110, part_003:1014
isOutOfRange(currentTick, p) == currentTick < p.tl \/ currentTick > p.tu

\* onNewBlock, part_000:168-202: npm.positions(tokenId) returned.
StratPosDone(s) ==
    /\ pc[s] = "strat_pos"
    /\ \/ /\ \E e \in PositionsErrors(loc[s].tokenId) : EndEval(s, "error", e)
          /\ UNCHANGED <<alerts, nHedge, hedgeAt>>
       \/ /\ loc[s].tokenId \in DOMAIN pos
          /\ LET p == pos[loc[s].tokenId] IN
             IF p.liq = 0
             THEN /\ Stay(s, "closed_alert", loc[s])
                  /\ alerts' = alerts + 1
                  /\ UNCHANGED <<nHedge, hedgeAt>>
             ELSE IF isOutOfRange(loc[s].snap, p)
             THEN /\ ExecStart(s, loc[s], loc[s].tokenId)
                  /\ UNCHANGED <<alerts, nHedge, hedgeAt>>
             ELSE /\ Stay(s, "hedge", loc[s])
                  /\ nHedge' = nHedge + 1
                  /\ hedgeAt' = now
                  /\ UNCHANGED alerts
    /\ UNCHANGED <<program, isSafeMode, lastHedgeTime, listeners, stateFile, now,
                   ledger, chain, nTrig, lastTrig, nReconnect, mintLost, owned0, units>>

\* onNewBlock, part_000:170-173: the alert of the closed-position branch resolved.
ClosedAlertDone(s) ==
    /\ pc[s] = "closed_alert"
    /\ Stay(s, "orphan", loc[s])
    /\ UNCHANGED <<program, isSafeMode, lastHedgeTime, listeners, stateFile, now,
                   ledger, chain, hist>>

\* onNewBlock, part_000:202-204: adjustHedge returned (or threw).
HedgeDone(s) ==
    /\ pc[s] = "hedge"
    /\ \/ /\ EndEval(s, "error", "rpc")
          /\ UNCHANGED lastHedgeTime
       \/ /\ lastHedgeTime' = now
          /\ EndEval(s, "hedged", "none")
    /\ UNCHANGED <<program, isSafeMode, listeners, stateFile, now, ledger, chain, hist>>

\* --------------------------------------------- the loops (cycle, mono)
\* runLifeCycle: the pool reads returned and the state file is loaded.
\*   cycle, part_002:51-77 and 97-99; mono, part_003:972-991 and 1003-1004.
PoolDone(s) ==
    /\ pc[s] = "pool"
    /\ \/ EndEval(s, "error", "rpc")
       \/ LET id == loadState.tokenId
              l == [loc[s] EXCEPT !.snap = tick, !.tokenId = id,
                                  !.path = IF id = None THEN "A" ELSE "B"]
          IN  IF id = None
              THEN IF program \in Monolith THEN Stay(s, "orphan", l)
                   ELSE Stay(s, "r_bal", l)
              ELSE Stay(s, "c_pos", l)
    /\ UNCHANGED <<program, isSafeMode, lastHedgeTime, listeners, stateFile, now,
                   ledger, chain, hist>>

\* runLifeCycle's branch for a tracked position: npm.positions(tokenId) returned.
\*   cycle, part_002:98-139; mono, part_003:1003-1033.
CPosDone(s) ==
    /\ pc[s] = "c_pos"
    /\ \/ /\ \E e \in PositionsErrors(loc[s].tokenId) : EndEval(s, "error", e)
          /\ UNCHANGED stateFile
       \/ /\ loc[s].tokenId \in DOMAIN pos
          /\ LET p == pos[loc[s].tokenId] IN
             IF p.liq = 0 /\ p.tl = 0
             THEN IF program = "cycle"
                  THEN /\ saveState(None)
                       /\ EndEvalAt(s, "reset", "none", None)
                  ELSE /\ ExecStart(s, loc[s], None)
                       /\ UNCHANGED stateFile
             ELSE IF isOutOfRange(loc[s].snap, p)
             THEN /\ IF program = "cycle"
                     THEN Stay(s, "x_pos", [loc[s] EXCEPT !.old = loc[s].tokenId])
                     ELSE ExecStart(s, loc[s], loc[s].tokenId)
                  /\ UNCHANGED stateFile
             ELSE /\ EndEval(s, "inrange", "none")
                  /\ UNCHANGED stateFile
    /\ UNCHANGED <<program, isSafeMode, lastHedgeTime, listeners, now, ledger, chain, hist>>

\* The ownership reads of the orphan scan returned.
\*   mono: runLifeCycle, part_003:991-998 (findOrphanedPosition, saveState, then
\*         executeFullRebalance with "0");
\*   bot:  scanLocalOrphans called by initialize (part_000:68-71) and by
\*         onNewBlock (part_000:172-173): the recovered identifier is saved.
OrphanDone(s) ==
    /\ pc[s] = "orphan"
    /\ \/ /\ EndEval(s, "error", "rpc")
          /\ NoRebind
          /\ UNCHANGED stateFile
       \/ LET recoveredId == findOrphanedPosition
              after == IF recoveredId # None THEN recoveredId ELSE stateFile.tokenId
          IN  /\ IF recoveredId # None THEN saveState(recoveredId)
                 ELSE UNCHANGED stateFile
              /\ IF program \in Monolith
                 THEN /\ ExecStart(s, [loc[s] EXCEPT !.tokenId = recoveredId], None)
                      /\ NoRebind
                 ELSE IF loc[s].path = "init"
                 THEN /\ setupEventListeners
                      /\ EndEvalAt(s, "init", "none", after)
                 ELSE /\ EndEvalAt(s, "closed", "none", after)
                      /\ NoRebind
    /\ UNCHANGED <<program, now, ledger, chain, hist>>

\* ------------------------------------------------ the rebalance engine
\* A failure inside the try block of executeFullRebalance's exit
\* (part_003:844-879) is logged by its catch and the engine goes on to the swap.
ExitCaught(s, l) == Stay(s, "r_bal", [l EXCEPT !.exitFailed = TRUE])

\* An exit batch that leaves the collect out.
ExitCallsNoCollect(liquidity) ==
    IF liquidity > 0 THEN <<"decreaseLiquidity", "burn">> ELSE <<"burn">>

\* atomicExitPosition, part_004:51-76: the calls encoded for the multicall.
ExitCalls(liquidity) ==
    (IF liquidity > 0 THEN <<"decreaseLiquidity">> ELSE <<>>) \o <<"collect", "burn">>

\* Whether the arguments of npm.collect can be encoded: the older
\* executeFullRebalance passes ethers.MaxUint256 for the uint128 amount0Max /
\* amount1Max (part_003:257-262), which the encoder rejects, so the call throws
\* into the catch; part_003:865-870 passes MAX_UINT128.
CollectEncodes == program # "legacy"

\* The exit's npm.positions(old) returned.
\*   bot, mono: executeFullRebalance, part_003:845-871 (sequential exit);
\*   cycle: atomicExitPosition, part_004:48-79 (one multicall).
XPosDone(s) ==
    /\ pc[s] = "x_pos"
    /\ LET l == loc[s] IN
       IF program = "cycle"
       THEN \/ /\ EndEval(s, "error", "rpc")
               /\ UNCHANGED chain
            \/ /\ l.old \in DOMAIN pos
               /\ \/ /\ EndEval(s, "error", "submit")
                     /\ UNCHANGED chain
                  \/ /\ Submit("multicall", l.old, ExitCalls(pos[l.old].liq))
                     /\ Stay(s, "x_multi_wait", Issued(l, "multicall"))
       ELSE \/ /\ ExitCaught(s, l)
               /\ UNCHANGED chain
            \/ /\ l.old \in DOMAIN pos
               /\ IF pos[l.old].liq > 0
                  THEN /\ Submit("decreaseLiquidity", l.old, <<>>)
                       /\ Stay(s, "x_dec_wait", Issued(l, "decreaseLiquidity"))
                  ELSE /\ CollectEncodes
                       /\ Submit("collect", l.old, <<>>)
                       /\ Stay(s, "x_col_wait", Issued(l, "collect"))
    /\ UNCHANGED <<program, isSafeMode, lastHedgeTime, listeners, stateFile, now,
                   ledger, hist>>

\* executeFullRebalance, part_003:860-871: decreaseLiquidity's receipt arrived.
XDecDone(s) ==
    /\ pc[s] = "x_dec_wait"
    /\ loc[s].rcpt # "none"
    /\ IF loc[s].rcpt = "ok"
       THEN \/ /\ ExitCaught(s, loc[s])
               /\ UNCHANGED chain
            \/ /\ CollectEncodes
               /\ Submit("collect", loc[s].old, <<>>)
               /\ Stay(s, "x_col_wait", Issued(loc[s], "collect"))
       ELSE /\ ExitCaught(s, loc[s])
            /\ UNCHANGED chain
    /\ UNCHANGED <<program, isSafeMode, lastHedgeTime, listeners, stateFile, now,
                   ledger, hist>>

\* executeFullRebalance, part_003:872-883: collect's receipt arrived; the burn
\* is submitted and not waited for, and rebalancePortfolio starts.
XColDone(s) ==
    /\ pc[s] = "x_col_wait"
    /\ loc[s].rcpt # "none"
    /\ IF loc[s].rcpt = "ok"
       THEN \/ /\ ExitCaught(s, loc[s])
               /\ UNCHANGED chain
            \/ /\ Submit("burn", loc[s].old, <<>>)
               /\ Stay(s, "r_bal", [Issued(loc[s], "burn") EXCEPT !.wait = 0])
       ELSE /\ ExitCaught(s, loc[s])
            /\ UNCHANGED chain
    /\ UNCHANGED <<program, isSafeMode, lastHedgeTime, listeners, stateFile, now,
                   ledger, hist>>

\* atomicExitPosition, part_004:80-85, then runLifeCycle part_002:117: the
\* multicall's receipt arrived.
XMultiDone(s) ==
    /\ pc[s] = "x_multi_wait"
    /\ loc[s].rcpt # "none"
    /\ IF loc[s].rcpt = "ok"
       THEN Stay(s, "r_bal", loc[s])
       ELSE EndEval(s, "error", "revert")
    /\ UNCHANGED <<program, isSafeMode, lastHedgeTime, listeners, stateFile, now,
                   ledger, chain, hist>>

\* ---- rebalancePortfolio's arithmetic
\* The wallet balances the phase may read.
Wallets == {[usdc |-> 1000, weth |-> 10000],
            [usdc |-> 1300, weth |-> 10000],
            [usdc |-> 2000, weth |-> 10000],
            [usdc |-> 3000, weth |-> 10000]}

Abs(x) == IF x < 0 THEN -x ELSE x

\* configuredPool.token0Price of a pool snapshot at tick t: USDC per WETH.
WethPrice(t) == IF t < 5000 THEN 1000 ELSE 2000

\* priceWethToUsdc.quote(wethAmount) / valWETH * priceWethInUsdc, in cents
WethValueInUsdc(w, price) == (w * price) \div 10000

\* priceUsdcToWeth.quote(usdcValue) / value / priceWethInUsdc, in micro-WETH
UsdcValueInWeth(c, price) == (c * 10000) \div price

\* part_003:675-676: valUSDC - totalValueUSDC / 2 (positive: excess USDC)
usdcDiff(b, price) ==
    b.usdc - ((b.usdc + WethValueInUsdc(b.weth, price)) \div 2)

\* configuredPool.getOutputAmount(inputAmount): the pool's quoted output
expectedOutput(tokenIn, amountIn, price) ==
    IF tokenIn = "USDC" THEN UsdcValueInWeth(amountIn, price)
    ELSE WethValueInUsdc(amountIn, price)

\* part_003:700 and 733: expectedOutput * (1 - slippageTolerance), its quotient
minAmountOut(tokenIn, amountIn, price) ==
    (expectedOutput(tokenIn, amountIn, price) * (10000 - SLIPPAGE_BPS)) \div 10000

NoSwap == [skip |-> TRUE, tokenIn |-> "none", amountIn |-> 0, minOut |-> 0]

\* A plan that sells the other asset.
SwapOfReversed(tokenIn, amountIn, minOut) ==
    [skip |-> FALSE, tokenIn |-> IF tokenIn = "USDC" THEN "WETH" ELSE "USDC",
     amountIn |-> amountIn, minOut |-> minOut]

\* The arguments of router.exactInputSingle.
SwapOf(tokenIn, amountIn, minOut) ==
    [skip |-> FALSE, tokenIn |-> tokenIn, amountIn |-> amountIn, minOut |-> minOut]

\* rebalancePortfolio of part_003:654-755 (bot, mono): threshold on the value
\* deviation, 99% of the WETH amount, minimum output from the quote.
PlanProtected(b, price) ==
    LET d == usdcDiff(b, price)
        wethIn == (UsdcValueInWeth(Abs(d), price) * 99) \div 100
    IN  IF Abs(d) < MIN_SWAP_USDC THEN NoSwap
        ELSE IF d > 0 THEN SwapOf("USDC", d, minAmountOut("USDC", d, price))
        ELSE SwapOf("WETH", wethIn, minAmountOut("WETH", wethIn, price))

\* rebalancePortfolio of part_003:117-183 (legacy): the same with
\* amountOutMinimum: 0.
PlanLegacy(b, price) ==
    LET d == usdcDiff(b, price)
        wethIn == (UsdcValueInWeth(Abs(d), price) * 99) \div 100
    IN  IF Abs(d) < MIN_SWAP_USDC THEN NoSwap
        ELSE IF d > 0 THEN SwapOf("USDC", d, 0)
        ELSE SwapOf("WETH", wethIn, 0)

\* rebalancePortfolio of part_004:88-159 (cycle): thresholds on the amount to
\* sell, amountOutMinimum: 0.
PlanCycle(b, price) ==
    LET wethValue == WethValueInUsdc(b.weth, price) IN
    IF b.usdc > wethValue
    THEN LET amountToSell == (b.usdc - wethValue) \div 2 IN
         IF amountToSell < CYCLE_MIN_SELL_USDC THEN NoSwap
         ELSE SwapOf("USDC", amountToSell, 0)
    ELSE LET amountToSell == UsdcValueInWeth((wethValue - b.usdc) \div 2, price) IN
         IF amountToSell < CYCLE_MIN_SELL_WETH THEN NoSwap
         ELSE SwapOf("WETH", amountToSell, 0)

\* A phase that swaps whatever the deviation is.
rebalancePlanNoThreshold(b, price) ==
    LET d == usdcDiff(b, price) IN
    IF d > 0 THEN SwapOf("USDC", d, minAmountOut("USDC", d, price))
    ELSE SwapOf("WETH", UsdcValueInWeth(Abs(d), price),
                minAmountOut("WETH", UsdcValueInWeth(Abs(d), price), price))

\* What rebalancePortfolio decides for the balances b it read and the price of
\* the pool snapshot it was given.
rebalancePlan(b, price) ==
    CASE program = "cycle" -> PlanCycle(b, price)
      [] program = "legacy" -> PlanLegacy(b, price)
      [] OTHER -> PlanProtected(b, price)

\* What follows rebalancePortfolio in its caller: the slot0 read of
\* part_003:902-903 and part_002:80-81 / 120-121; the older executeFullRebalance
\* (part_003:277-285) goes on with configuredPool.tickCurrent.
AfterRebalance(s, l) ==
    IF program = "legacy"
    THEN Stay(s, "m_bal", [l EXCEPT !.ntick = l.snap])
    ELSE Stay(s, "f_slot0", l)

\* rebalancePortfolio (part_003:654-755 and 117-183, part_004:88-159): the
\* balance reads returned; below the threshold no swap is made, else one swap
\* is submitted.
RBalDone(s) ==
    /\ pc[s] = "r_bal"
    /\ \/ /\ EndEval(s, "error", "rpc")
          /\ UNCHANGED chain
       \/ \E b \in Wallets :
             LET plan == rebalancePlan(b, WethPrice(loc[s].snap))
                 l == [loc[s] EXCEPT !.bal = b]
             IN  IF plan.skip
                 THEN /\ AfterRebalance(s, l)
                      /\ UNCHANGED chain
                 ELSE \/ /\ EndEval(s, "error", "submit")
                         /\ UNCHANGED chain
                      \/ /\ Submit("swap", None, <<plan.tokenIn, plan.amountIn, plan.minOut>>)
                         /\ Stay(s, "r_swap_wait", Issued(l, "swap"))
    /\ UNCHANGED <<program, isSafeMode, lastHedgeTime, listeners, stateFile, now,
                   ledger, hist>>

\* rebalancePortfolio: the swap's receipt arrived (part_003:719/752, part_004:127/157).
RSwapDone(s) ==
    /\ pc[s] = "r_swap_wait"
    /\ loc[s].rcpt # "none"
    /\ IF loc[s].rcpt = "ok"
       THEN AfterRebalance(s, [loc[s] EXCEPT !.bal = NoLoc.bal])
       ELSE EndEval(s, "error", "revert")
    /\ UNCHANGED <<program, isSafeMode, lastHedgeTime, listeners, stateFile, now,
                   ledger, chain, hist>>

\* The slot0 read after the swap returned (part_003:902-903, part_002:80-81 and
\* 120-121); the range is computed from this tick.
FSlot0Done(s) ==
    /\ pc[s] = "f_slot0"
    /\ \/ EndEval(s, "error", "rpc")
       \/ Stay(s, "m_bal", [loc[s] EXCEPT !.ntick = tick, !.bal = NoLoc.bal])
    /\ UNCHANGED <<program, isSafeMode, lastHedgeTime, listeners, stateFile, now,
                   ledger, chain, hist>>

\* mintMaxLiquidity (part_003:763-816, part_004:167-198): the balance reads
\* returned and the mint is submitted.
MBalDone(s) ==
    /\ pc[s] = "m_bal"
    /\ \/ /\ EndEval(s, "error", "rpc")
          /\ UNCHANGED chain
       \/ /\ EndEval(s, "error", "submit")
          /\ UNCHANGED chain
       \/ /\ Submit("mint", None, RangeOf(loc[s].ntick))
          /\ Stay(s, "m_wait", Issued([loc[s] EXCEPT !.bal = NoLoc.bal], "mint"))
    /\ UNCHANGED <<program, isSafeMode, lastHedgeTime, listeners, stateFile, now,
                   ledger, hist>>

\* mintMaxLiquidity's handling of a receipt without the Mint event:
\*   part_004:207-209 throws its own error;
\*   part_003:820-827 decodes event.data of an undefined event (a TypeError).
MintNoEventError == IF program = "cycle" THEN "MintEventMissing" ELSE "TypeError"

\* The caller's bookkeeping after a successful rebalance: onNewBlock sets
\* lastHedgeTime (part_000:125 and 182); the loops have none.
AfterRebalanceHedgeTime(l) ==
    IF program # "bot" THEN lastHedgeTime
    ELSE IF l.path = "scan" THEN 0 ELSE now

\* The mint's receipt arrived: the identifier is parsed and saved
\* (part_003:817-831 and 938-941; part_004:199-216 and part_002:92-93, 132-133).
MWaitDone(s) ==
    /\ pc[s] = "m_wait"
    /\ loc[s].rcpt # "none"
    /\ IF loc[s].rcpt = "ok"
       THEN /\ saveState(loc[s].newId)
            /\ lastHedgeTime' = AfterRebalanceHedgeTime(loc[s])
            /\ EndEvalAt(s, "minted", "none", loc[s].newId)
       ELSE /\ EndEval(s, "error", IF loc[s].rcpt = "noevent" THEN MintNoEventError
                                   ELSE "revert")
            /\ UNCHANGED <<stateFile, lastHedgeTime>>
    /\ mintLost' = (mintLost \/ loc[s].rcpt = "noevent")
    /\ UNCHANGED <<program, isSafeMode, listeners, now, ledger, chain,
                   nTrig, lastTrig, nReconnect, nHedge, hedgeAt, alerts, owned0, units>>

\* ---------------------------------------------------------- the ledger
WaitPcs == {"apv_wait", "x_dec_wait", "x_col_wait", "x_multi_wait", "r_swap_wait", "m_wait"}

\* One call of the position manager on a position: st is the position with a
\* flag for a failed call and one for a burned token.
StepCall(st, call) ==
    CASE call = "decreaseLiquidity" ->
            IF st.ok /\ ~st.burned /\ st.liq > 0
            THEN [st EXCEPT !.liq = 0, !.owed = 1] ELSE [st EXCEPT !.ok = FALSE]
      [] call = "collect" ->
            IF st.ok /\ ~st.burned
            THEN [st EXCEPT !.owed = 0] ELSE [st EXCEPT !.ok = FALSE]
      [] call = "burn" ->
            IF st.ok /\ ~st.burned /\ st.liq = 0 /\ st.owed = 0
            THEN [st EXCEPT !.burned = TRUE] ELSE [st EXCEPT !.ok = FALSE]
      [] OTHER -> [st EXCEPT !.ok = FALSE]

\* The position manager's multicall: the calls run in order on the position.
RECURSIVE RunCalls(_, _)
RunCalls(st, calls) ==
    IF calls = <<>> THEN st ELSE RunCalls(StepCall(st, Head(calls)), Tail(calls))

\* The outcome of a batch of calls on position id in the current ledger state.
Batch(id, calls) ==
    IF id \in DOMAIN pos
    THEN RunCalls([ok |-> TRUE, burned |-> FALSE, liq |-> pos[id].liq, owed |-> pos[id].owed],
                  calls)
    ELSE [ok |-> FALSE, burned |-> FALSE, liq |-> 0, owed |-> 0]

\* Whether the ledger accepts the transaction in its current state.
Accepts(tx) ==
    CASE tx.kind = "decreaseLiquidity" -> tx.id \in DOMAIN pos /\ pos[tx.id].liq = 1
      [] tx.kind = "collect" -> tx.id \in DOMAIN pos
      [] tx.kind = "burn" -> tx.id \in DOMAIN pos /\ pos[tx.id].liq = 0 /\ pos[tx.id].owed = 0
      [] tx.kind = "multicall" -> Batch(tx.id, tx.arg).ok
      [] OTHER -> TRUE

Without(f, id) == [i \in (DOMAIN f) \ {id} |-> f[i]]
With(f, id, v) == [i \in (DOMAIN f) \cup {id} |-> IF i = id THEN v ELSE f[i]]

\* The effect of an accepted transaction on positions and ownership.
Applied(tx) ==
    CASE tx.kind = "decreaseLiquidity" ->
            /\ pos' = [pos EXCEPT ![tx.id].liq = 0, ![tx.id].owed = 1]
            /\ UNCHANGED <<owned, nextTokenId, allowance>>
      [] tx.kind = "collect" ->
            /\ pos' = [pos EXCEPT ![tx.id].owed = 0]
            /\ UNCHANGED <<owned, nextTokenId, allowance>>
      [] tx.kind = "burn" ->
            /\ pos' = Without(pos, tx.id)
            /\ owned' = RemoveId(owned, tx.id)
            /\ UNCHANGED <<nextTokenId, allowance>>
      [] tx.kind = "multicall" ->
            LET end == Batch(tx.id, tx.arg) IN
            /\ pos' = IF end.burned THEN Without(pos, tx.id)
                      ELSE [pos EXCEPT ![tx.id].liq = end.liq, ![tx.id].owed = end.owed]
            /\ owned' = IF end.burned THEN RemoveId(owned, tx.id) ELSE owned
            /\ UNCHANGED <<nextTokenId, allowance>>
      [] tx.kind = "mint" ->
            /\ pos' = With(pos, nextTokenId,
                           [liq |-> 1, owed |-> 0, tl |-> tx.arg[1], tu |-> tx.arg[2]])
            /\ owned' = Append(owned, nextTokenId)
            /\ nextTokenId' = nextTokenId + 1
            /\ UNCHANGED allowance
      [] tx.kind = "approve" ->
            /\ allowance' = allowance \cup {tx.arg[1]}
            /\ UNCHANGED <<owned, pos, nextTokenId>>
      [] OTHER -> UNCHANGED <<owned, pos, nextTokenId, allowance>>

\* The receipt reaches the invocation that awaits this transaction, if any.
Deliver(tx, r) ==
    loc' = [s \in Slots |->
              IF pc[s] \in WaitPcs /\ loc[s].wait = tx.nonce /\ loc[s].rcpt = "none"
              THEN [loc[s] EXCEPT !.rcpt = r,
                                  !.newId = IF tx.kind = "mint" /\ r = "ok"
                                            THEN nextTokenId ELSE @]
              ELSE loc[s]]

\* The oldest pending transaction is mined: it takes effect or reverts.  A mint
\* that took effect may come with a receipt in which the event looked for is
\* absent; a swap that took effect moves the pool price.
Settle ==
    /\ mempool # <<>>
    /\ LET tx == Head(mempool) IN
       \E r \in {"ok", "noevent", "revert"} :
          /\ r = "noevent" => tx.kind = "mint"
          /\ r # "revert" => Accepts(tx)
          /\ IF r = "revert" THEN UNCHANGED <<owned, pos, nextTokenId, allowance>>
             ELSE Applied(tx)
          /\ IF r # "revert" /\ tx.kind = "swap" THEN tick' \in PoolTicks
             ELSE UNCHANGED tick
          /\ Deliver(tx, r)
    /\ mempool' = Tail(mempool)
    /\ UNCHANGED <<program, sched, stateFile, now, nextNonce, pc, hist, lastEval>>

\* waitWithTimeout, part_004:247-254, by what settles the race first: the
\* timer, tx.wait() with a receipt, or tx.wait() with null.
waitWithTimeout(first) ==
    CASE first = "timer" -> [ok |-> FALSE, err |-> "TIMEOUT"]
      [] first = "null" -> [ok |-> FALSE, err |-> "Tx dropped or failed"]
      [] OTHER -> [ok |-> TRUE, err |-> "none"]

\* A timeout that withdraws the transaction it stopped waiting for.
PendingAfterTimeoutCancelled(mp, nonce) == SelectSeq(mp, LAMBDA tx : tx.nonce # nonce)

\* part_004:247-250: the race only stops the waiting; nothing is sent to the
\* node and the transaction stays where it is.
PendingAfterTimeout(mp, nonce) == mp

\* A timed-out wait inside a retry wrapper: the transaction waited for is
\* submitted once more and waited for again.
TimeoutResubmits(s) ==
    /\ program = "cycle"
    /\ pc[s] \in WaitPcs
    /\ loc[s].rcpt = "none"
    /\ \E i \in 1..Len(mempool) :
          /\ mempool[i].nonce = loc[s].wait
          /\ Submit(mempool[i].kind, mempool[i].id, mempool[i].arg)
          /\ Stay(s, pc[s], Issued(loc[s], mempool[i].kind))
    /\ UNCHANGED <<program, isSafeMode, lastHedgeTime, listeners, stateFile, now,
                   ledger, hist>>

\* waitWithTimeout, part_004:240-255: the timer fires before the receipt.
Timeout(s) ==
    /\ program = "cycle"
    /\ pc[s] \in WaitPcs
    /\ loc[s].rcpt = "none"
    /\ EndEval(s, "error", waitWithTimeout("timer").err)
    /\ mempool' = PendingAfterTimeout(mempool, loc[s].wait)
    /\ UNCHANGED <<program, isSafeMode, lastHedgeTime, listeners, stateFile, now,
                   ledger, nextNonce, hist>>

\* ------------------------------------------------------ specification
Next ==
    \/ PriceMove
    \/ ClockTick
    \/ Reconnect
    \/ Settle
    \/ \E s \in Slots : Boot(s)
    \/ \E s \in Slots : Wake(s)
    \/ \E s \in Slots : ApvReadDone(s)
    \/ \E s \in Slots : ApvWaitDone(s)
    \/ \E s \in Slots : BlockHandler(s)
    \/ \E s \in Slots : ScanPoolDone(s)
    \/ \E s \in Slots : HealthDone(s)
    \/ \E s \in Slots : AlertDone(s)
    \/ \E s \in Slots : StratPoolDone(s)
    \/ \E s \in Slots : StratPosDone(s)
    \/ \E s \in Slots : ClosedAlertDone(s)
    \/ \E s \in Slots : HedgeDone(s)
    \/ \E s \in Slots : PoolDone(s)
    \/ \E s \in Slots : CPosDone(s)
    \/ \E s \in Slots : OrphanDone(s)
    \/ \E s \in Slots : XPosDone(s)
    \/ \E s \in Slots : XDecDone(s)
    \/ \E s \in Slots : XColDone(s)
    \/ \E s \in Slots : XMultiDone(s)
    \/ \E s \in Slots : RBalDone(s)
    \/ \E s \in Slots : RSwapDone(s)
    \/ \E s \in Slots : FSlot0Done(s)
    \/ \E s \in Slots : MBalDone(s)
    \/ \E s \in Slots : MWaitDone(s)
    \/ \E s \in Slots : Timeout(s)

Spec == Init /\ [][Next]_vars

-----------------------------------------------------------------------------
\* The units on their own.  The program is at rest in each of these
\* specifications: a unit is given its inputs and applied step by step.

\* The program before it starts, with nothing owned and nothing saved.
Parked ==
    /\ program = "bot"
    /\ isProcessing = FALSE
    /\ isSafeMode = FALSE
    /\ lastHedgeTime = 0
    /\ listeners = 0
    /\ stateFile = [tokenId |-> None, lastCheck |-> 0]
    /\ now = HEDGE_CHECK_INTERVAL_MS
    /\ tick = 2040
    /\ owned = <<>>
    /\ pos = [i \in {} |-> InitPos]
    /\ nextTokenId = 2
    /\ owned0 = 0
    /\ allowance = {}
    /\ mempool = <<>>
    /\ nextNonce = 1
    /\ pc = [s \in Slots |-> "idle"]
    /\ loc = [s \in Slots |-> NoLoc]
    /\ nTrig = 0
    /\ lastTrig = "none"
    /\ nReconnect = 0
    /\ nHedge = 0
    /\ hedgeAt = -1
    /\ alerts = 0
    /\ mintLost = FALSE
    /\ lastEval = NoEval

\* ------------------------------------------------- range computation
\* The ticks a pool can report that are looked at: EdgeSpan ticks at each end
\* of the global limits and on each side of zero.
RangeTicks ==
    (MIN_TICK .. MIN_TICK + EdgeSpan) \cup (-EdgeSpan .. EdgeSpan)
        \cup (MAX_TICK - EdgeSpan .. MAX_TICK)

\* The spacings of the fee tiers (1, 10, 60, 200) and a wider one.
RangeSpacings == {1, 10, 60, 200, 4000}

\* The three places a range is computed.
RangeImpls == {"executeFullRebalance", "executeFullRebalance (older)", "runLifeCycle"}

InitRange ==
    /\ Parked
    /\ retry = NoRetry
    /\ disk = NoDisk
    /\ \E impl \in RangeImpls, t \in RangeTicks, sp \in RangeSpacings :
          range = [NoRange EXCEPT !.impl = impl, !.t = t, !.sp = sp]

\* part_003:917-933, part_003:281-285, part_002:87-90: the bounds are computed
\* from the tick and the spacing.
ComputeBounds ==
    /\ range.n = 0
    /\ range' = [range EXCEPT
          !.n = 1,
          !.first = CASE range.impl = "executeFullRebalance" ->
                            ComputeRange(range.t, range.sp)
                      [] range.impl = "executeFullRebalance (older)" ->
                            LegacyRange(range.t, range.sp)
                      [] OTHER -> CycleRange(range.t, range.sp)]
    /\ UNCHANGED <<progvars, retry, disk>>

\* part_003:920-933 applied once more, to the bounds it produced.
Reclamp ==
    /\ range.n = 1
    /\ range.impl = "executeFullRebalance"
    /\ range' = [range EXCEPT
          !.n = 2,
          !.second = ClampNormalize(range.first[1], range.first[2], range.sp)]
    /\ UNCHANGED <<progvars, retry, disk>>

NextRange == ComputeBounds \/ Reclamp

SpecRange == InitRange /\ [][NextRange]_vars

\* ------------------------------------------------------------ withRetry
\* The errors the operation rejects with.
ErrKinds == {"NETWORK_ERROR", "SERVER_ERROR"}

\* A call withRetry(operation, retries) with MAX_RETRIES of the configuration
\* (a caller that passes no second argument calls it with MAX_RETRIES).
InitRetry ==
    /\ Parked
    /\ range = NoRange
    /\ disk = NoDisk
    /\ \E max \in 0..MaxRetries, arg \in 0..MaxRetries :
          retry = [NoRetry EXCEPT !.st = "call", !.max = max, !.arg = arg,
                                  !.retries = arg]

\* A retry that is also made when no retries are left.
MayRetryOnceMore(retries) == retries >= 0

\* part_004:230
MayRetry(retries) == retries > 0

\* part_004:231
RetryDelay(max, retries) == RETRY_BASE_MS * (max - retries + 1)

\* An error that replaces the operation's error.
RethrownWrapped(error) == [error EXCEPT !.kind = "RETRIES_EXHAUSTED"]

\* part_004:236: throw error
Rethrown(error) == error

\* part_004:228 and 229-236: operation() rejects; the catch block either arms
\* the timer of sleep(delay) or throws the error it caught.
OpFails ==
    /\ retry.st = "call"
    /\ \E kind \in ErrKinds :
          LET error == [attempt |-> retry.calls + 1, kind |-> kind]
              r == [retry EXCEPT !.calls = @ + 1, !.errors = Append(@, error)]
          IN  retry' = IF MayRetry(retry.retries)
                       THEN [r EXCEPT !.st = "sleep",
                                      !.delays = Append(@, RetryDelay(retry.max, retry.retries))]
                       ELSE [r EXCEPT !.st = "thrown", !.thrown = Rethrown(error)]
    /\ UNCHANGED <<progvars, range, disk>>

\* part_004:228: operation() resolves and its value is returned.
OpSucceeds ==
    /\ retry.st = "call"
    /\ retry' = [retry EXCEPT !.calls = @ + 1, !.result = retry.calls + 1,
                              !.st = "returned"]
    /\ UNCHANGED <<progvars, range, disk>>

\* part_004:233-234: the sleep is over and withRetry calls itself with one
\* retry less.
SleepDone ==
    /\ retry.st = "sleep"
    /\ retry' = [retry EXCEPT !.retries = @ - 1, !.st = "call"]
    /\ UNCHANGED <<progvars, range, disk>>

NextRetry == OpFails \/ OpSucceeds \/ SleepDone

\* The operation settles and the timers fire: a step that can be taken is taken.
SpecRetry == InitRetry /\ [][NextRetry]_vars /\ WF_vars(NextRetry)

\* ------------------------------------------------------- the state file
\* The file is a sequence of the tokens of its text; values are JavaScript
\* values with their type.  Identifiers and times are the strings of the text.
TokenIds == {"0", "1", "2"}
Times == {"100", "200"}

\* { tokenId, lastCheck } of interface BotState, part_003:556-559
BotState(tokenId, lastCheck) ==
    [type |-> "object", tokenId |-> tokenId, lastCheck |-> lastCheck]

\* part_003:570
DefaultState == BotState("0", "0")

\* JSON.stringify(state, null, 2), part_003:595
JSONstringify(state) ==
    <<"{", "tokenId", state.tokenId, "lastCheck", state.lastCheck, "}">>

\* JSON.parse(data), part_003:565: the value of a text that is JSON (a record of
\* the two fields, the empty object, null), and a SyntaxError for any other text
\* (the empty text and every proper prefix of a record among them).
JSONparse(data) ==
    CASE data = <<"null">> ->
            [threw |-> FALSE,
             value |-> [type |-> "null", tokenId |-> "undefined", lastCheck |-> "undefined"]]
      [] data = <<"{", "}">> ->
            [threw |-> FALSE, value |-> BotState("undefined", "undefined")]
      [] Len(data) = 6 /\ data[1] = "{" /\ data[2] = "tokenId" /\ data[4] = "lastCheck"
            /\ data[6] = "}" ->
            [threw |-> FALSE, value |-> BotState(data[3], data[5])]
      [] OTHER -> [threw |-> TRUE, value |-> DefaultState]

\* loadState, part_003:561-571, on a file: what it returns.
loadStateOf(file) ==
    IF file.exists
    THEN IF ~file.readable THEN DefaultState                 \* readFileSync throws
         ELSE IF JSONparse(file.bytes).threw THEN DefaultState
         ELSE JSONparse(file.bytes).value
    ELSE DefaultState

\* The texts the file may hold when the process starts, besides none at all.
StartTexts ==
    {<<>>, <<"null">>, <<"{", "}">>, <<"{", "tokenId", "1">>, <<"garbage">>}
        \cup {JSONstringify(BotState(id, "100")) : id \in {"0", "1"}}

InitDisk ==
    /\ Parked
    /\ range = NoRange
    /\ retry = NoRetry
    /\ \/ disk = [NoDisk EXCEPT !.st = "idle"]
       \/ \E text \in StartTexts, readable \in BOOLEAN :
             disk = [NoDisk EXCEPT !.st = "idle", !.exists = TRUE,
                                   !.readable = readable, !.bytes = text]

\* saveState, part_003:593-597: writeFileSync opens the file, which empties
\* it, and has the text of the record still to write.
SaveOpen ==
    /\ disk.st = "idle"
    /\ disk.saves < MaxSaves
    /\ \E tokenId \in TokenIds \ {"0"} :
          disk' = [disk EXCEPT
             !.st = "saving", !.exists = TRUE, !.readable = TRUE, !.bytes = <<>>,
             !.pending = JSONstringify(BotState(tokenId, "200")),
             !.target = JSONstringify(BotState(tokenId, "200")),
             !.before = IF disk.exists /\ disk.readable THEN disk.bytes ELSE <<>>,
             !.saves = @ + 1]
    /\ UNCHANGED <<progvars, range, retry>>

\* writeFileSync writes the next part of the text; with the last part
\* saveState returns.
SaveWrite ==
    /\ disk.st = "saving"
    /\ disk' = [disk EXCEPT
          !.bytes = Append(@, Head(disk.pending)),
          !.pending = Tail(@),
          !.st = IF Len(disk.pending) = 1 THEN "idle" ELSE "saving"]
    /\ UNCHANGED <<progvars, range, retry>>

\* The process is stopped in the middle of the save and started again.
Interrupted ==
    /\ disk.st = "saving"
    /\ disk' = [disk EXCEPT !.st = "idle", !.pending = <<>>]
    /\ UNCHANGED <<progvars, range, retry>>

\* loadState is called.
Load ==
    /\ disk.st = "idle"
    /\ disk' = [disk EXCEPT !.loads = 1, !.loaded = loadStateOf(disk),
                            !.loadedBytes = disk.bytes]
    /\ UNCHANGED <<progvars, range, retry>>

NextDisk == SaveOpen \/ SaveWrite \/ Interrupted \/ Load

SpecDisk == InitDisk /\ [][NextDisk]_vars

-----------------------------------------------------------------------------
\* Properties of the scheduler

\* Slots whose handler invocation is not running an evaluation.
Quiet == {"idle", "boot", "sleep"}

\* The evaluations of onNewBlock / runLifeCycle in progress.
Evaluating == {s \in Slots : pc[s] \notin Quiet /\ loc[s].path # "init"}

\* A block trigger (or a loop wake-up) is delivered in this step.
Trigger == nTrig' = nTrig + 1

\* C1: while the scheduler is in SAFE_MODE no step issues a mutating ledger
\* call (no transaction is submitted, no hedge adjustment is made) and no step
\* saves the PositionRecord; a trigger delivered in SAFE_MODE starts nothing.
C1_SafeModeIssuesNothing ==
    [][isSafeMode => /\ nextNonce' = nextNonce
                     /\ Len(mempool') <= Len(mempool)
                     /\ stateFile' = stateFile
                     /\ nHedge' = nHedge
                     /\ (Trigger => pc' = pc /\ loc' = loc)]_vars

\* A trigger was delivered while the scheduler was in SAFE_MODE.
C1_Witness == isSafeMode /\ lastTrig = "suppressed" /\ nTrig = MaxTriggers

\* C2: SAFE_MODE is terminal: once isSafeMode is set, no trigger, error or
\* reconnect (with its listener re-binding) clears it.
C2_SafeModeTerminal == [][isSafeMode => isSafeMode']_vars

\* The scheduler is in SAFE_MODE and the transport has reconnected.
C2_Witness == isSafeMode /\ nReconnect > 0 /\ listeners = 1

\* C3: an evaluation whose safety check returned false emits an alert and ends
\* with the scheduler in SAFE_MODE, whether or not the alert was delivered; it
\* issues no transaction and no save on the way.
C3_UnsafeVerdictEndsInSafeMode ==
    [][\A s \in Slots :
          /\ (loc'[s].verdict = "unsafe" => pc'[s] = "alert" /\ alerts' > 0)
          /\ (loc[s].verdict = "unsafe" /\ loc'[s].verdict # "unsafe"
                => /\ isSafeMode'
                   /\ lastEval'.res = "panic"
                   /\ pc'[s] = "idle"
                   /\ nextNonce' = nextNonce
                   /\ stateFile' = stateFile)]_vars

\* An evaluation ended on an unsafe verdict.
C3_Witness == lastEval.res = "panic" /\ isSafeMode /\ alerts > 0

\* C4: at most one evaluation is in progress at any instant, also after the
\* listener was re-bound by a reconnect; in the bot the guard is set exactly
\* while an evaluation runs.
C4_SingleFlight ==
    /\ Cardinality(Evaluating) <= 1
    /\ (program = "bot" => (isProcessing <=> Evaluating # {}))
    /\ listeners <= 1

\* A trigger met a running evaluation after the listener was re-bound.
C4_Witness ==
    /\ nReconnect > 0
    /\ lastTrig = "dropped"
    /\ Cardinality(Evaluating) = 1

\* C5: a trigger that arrives while an evaluation is in progress is dropped: it
\* raises nothing and changes no evaluation, and it is not replayed, because an
\* evaluation starts only in the step of a trigger that found none in progress.
C5_BusyTriggerDropped ==
    [][/\ (Trigger /\ isProcessing
             => /\ pc' = pc /\ loc' = loc
                /\ lastEval' = lastEval
                /\ isProcessing'
                /\ lastTrig' = "dropped")
       /\ (\A s \in Slots : pc[s] \in {"idle", "sleep"} /\ pc'[s] \notin Quiet
             => Trigger /\ ~isProcessing /\ Evaluating = {})]_vars

\* Two back-to-back triggers, the second one dropped, the first evaluation
\* still in progress.
C5_Witness ==
    /\ lastTrig = "dropped"
    /\ nTrig = 2
    /\ isProcessing
    /\ nReconnect = 0

\* C6: an evaluation that ends in an error is caught by the scheduler: the
\* guard is released in the same step, the handler invocation ends, and the
\* next trigger outside SAFE_MODE starts a fresh evaluation.
C6_ErrorReleasesGuard ==
    [][/\ (\A s \in Slots : pc[s] \notin Quiet /\ loc[s].path # "init"
                            /\ pc'[s] \in Quiet /\ lastEval'.res = "error"
             => ~isProcessing' /\ loc'[s] = NoLoc)
       /\ (Trigger /\ lastEval.res = "error" /\ ~isSafeMode
             => \E s \in Slots : /\ pc[s] \in {"idle", "sleep"}
                                 /\ pc'[s] \notin Quiet
                                 /\ loc'[s].afterError)]_vars

\* An evaluation is running that was started by the trigger after a failed one.
C6_Witness == \E s \in Evaluating : loc[s].afterError /\ program = "bot"


-----------------------------------------------------------------------------
\* Properties of the position lifecycle and the rebalance protocol

\* The mint transactions submitted and not yet settled.
PendingMints == {i \in 1..Len(mempool) : mempool[i].kind = "mint"}

\* C7: exactly-one-position: starting from an account that owns at most one
\* position token, the account owns at most one live position, and a
\* persisted position id left by an evaluation that minted names the only
\* position the account owns once nothing is pending.
C7_ExactlyOnePosition ==
    owned0 <= 1 =>
        /\ Len(owned) <= 1
        /\ (lastEval.res = "minted" /\ mempool = <<>> => owned = <<stateFile.tokenId>>)

\* C8: in one run of the rebalance protocol a failed exit phase is followed by
\* no swap and no mint: the later phases are not issued.
C8_FailedExitAbortsProtocol ==
    \A s \in Slots :
        loc[s].exitFailed =>
            \A i \in 1..Len(loc[s].ops) : loc[s].ops[i] \notin {"swap", "mint"}

\* C9: a mint is not submitted again while an earlier mint, whose wait timed
\* out, can still settle: two mints are never pending together.
C9_NoSecondMintWhilePending == Cardinality(PendingMints) <= 1

\* C10: a mint that confirms without a Mint event ends the evaluation with the
\* distinct event-missing error, not a decoding crash, and leaves the
\* PositionRecord as it was.
C10_MintWithoutEventIsDistinctError ==
    [][\A s \in Slots :
          pc[s] = "m_wait" /\ loc[s].rcpt = "noevent" /\ pc'[s] # "m_wait"
            => /\ lastEval'.res = "error"
               /\ lastEval'.err = "MintEventMissing"
               /\ stateFile' = stateFile]_vars


-----------------------------------------------------------------------------
\* Properties of recovery and of the protocol's phases

\* A transaction of this kind is handed to the node in this step.
Submitted(kind) ==
    /\ nextNonce' = nextNonce + 1
    /\ mempool' # <<>>
    /\ mempool'[Len(mempool')].kind = kind

\* Some transaction is handed to the node in this step.
SubmittedAny == nextNonce' = nextNonce + 1

\* C11: once a mint has confirmed without its event being found, no later
\* step submits another mint: the case is left to manual recovery.
C11_NoMintAfterLostMint == [][mintLost => ~Submitted("mint")]_vars


\* C12: with a persisted id of none and a wallet that owns exactly one
\* position, the owned id is recovered and saved before any transaction
\* (approve, exit, swap, mint) is submitted: no step submits a transaction
\* while the record still says none and one position is owned.
C12_RecoveredBeforeAnyMutation ==
    [][SubmittedAny => ~(stateFile.tokenId = None /\ Len(owned) = 1)]_vars


\* C13: findOrphanedPosition returns none when the wallet owns no position
\* token and else the token at the highest enumeration index; the scan writes
\* nothing to the ledger, so every owned token is left as it was.
C13_FindOrphanedPosition ==
    [][\A s \in Slots :
          pc[s] = "orphan" /\ pc'[s] # "orphan" /\ lastEval'.res # "error"
            => /\ Len(owned) = 0 => stateFile' = stateFile
               /\ Len(owned) > 0 => stateFile'.tokenId = owned[Len(owned)]
               /\ program \in Monolith =>
                     loc'[s].tokenId = IF Len(owned) = 0 THEN None
                                       ELSE owned[Len(owned)]
               /\ UNCHANGED <<owned, pos, nextTokenId, allowance, tick>>
               /\ UNCHANGED <<mempool, nextNonce>>]_vars

\* A scan of a wallet with two tokens has recovered the later-enumerated one.
C13_Witness ==
    /\ Len(owned) = 2
    /\ owned[1] # owned[2]
    /\ stateFile.tokenId = owned[2]
    /\ stateFile.lastCheck > 0
    /\ \E s \in Slots : pc[s] = "r_bal" /\ loc[s].tokenId = owned[2] /\ loc[s].ops = <<>>


\* C14: the orphan scan runs only when the persisted id is none: no scan is in
\* progress while the PositionRecord names an identifier.
C14_ScanOnlyWhenNone ==
    \A s \in Slots : pc[s] = "orphan" => stateFile.tokenId = None


\* The transactions the invocation in slot s has submitted that are not yet
\* settled (one invocation submits at a time, so its nonces are the latest).
OwnPending(s) ==
    {i \in 1..Len(mempool) : mempool[i].nonce >= nextNonce - Len(loc[s].ops)}

\* C15: within one evaluation the mutating steps are strictly sequential: when
\* an evaluation submits a transaction, every transaction it submitted before
\* has settled, so the exit (with its burn) has settled before the swap.
C15_StepsStrictlySequential ==
    [][\A s \in Slots :
          pc[s] \notin Quiet /\ SubmittedAny /\ loc'[s].ops # loc[s].ops
            => OwnPending(s) = {}]_vars


\* C16: atomicExitPosition makes exactly one batched submission whose calls
\* are, in order, the withdrawal (if and only if the liquidity read is
\* positive), the collect and the burn, with no exit transaction outside the
\* batch; when the batch is mined either the position is gone from the ledger
\* and from the wallet, or the ledger is exactly as before.
C16_AtomicExit ==
    [][/\ Submitted("multicall") =>
             LET tx == mempool'[Len(mempool')] IN
             /\ tx.id # None
             /\ tx.id \in DOMAIN pos
             /\ tx.arg = IF pos[tx.id].liq > 0
                         THEN <<"decreaseLiquidity", "collect", "burn">>
                         ELSE <<"collect", "burn">>
       /\ \A s \in Slots :
             program = "cycle" =>
                /\ Cardinality({i \in 1..Len(loc'[s].ops) : loc'[s].ops[i] = "multicall"}) <= 1
                /\ \A i \in 1..Len(loc'[s].ops) :
                      loc'[s].ops[i] \notin {"decreaseLiquidity", "collect", "burn"}
       /\ (mempool # <<>> /\ mempool' = Tail(mempool) /\ Head(mempool).kind = "multicall") =>
             LET id == Head(mempool).id IN
             \/ pos' = pos /\ owned' = owned
             \/ /\ id \in DOMAIN pos
                /\ pos' = Without(pos, id)
                /\ owned' = RemoveId(owned, id)]_vars

\* An exit batch with all three calls was mined and took effect, and the
\* evaluation that submitted it goes on to the rebalance.
C16_Witness ==
    /\ program = "cycle"
    /\ \E s \in Slots :
          /\ pc[s] = "r_bal"
          /\ loc[s].ops # <<>>
          /\ loc[s].ops[Len(loc[s].ops)] = "multicall"
          /\ loc[s].old # None
          /\ loc[s].old \notin DOMAIN pos
          /\ loc[s].old \notin SeqToSet(owned)


-----------------------------------------------------------------------------
\* Properties of the rebalance phase

\* The signed deviation of the USDC balance from an even split by value, in
\* cents, at the given WETH price (positive: USDC is held in excess).
Deviation(b, price) == (b.usdc - WethValueInUsdc(b.weth, price)) \div 2

\* The balance reads of rebalancePortfolio return in this step of slot s.
BalancesRead(s) == pc[s] = "r_bal" /\ loc'[s].bal # NoLoc.bal

\* The number of swaps the invocation in slot s has submitted.
SwapsOf(l) == Cardinality({i \in 1..Len(l.ops) : l.ops[i] = "swap"})

\* The deviation is below the threshold of the rebalancePortfolio that runs:
\* 2 USDC of value, or, in the loop's, 5 USDC to sell on the USDC side and
\* 0.002 WETH to sell on the WETH side.
BelowThreshold(b, price) ==
    LET d == Deviation(b, price) IN
    IF program # "cycle" THEN Abs(d) < MIN_SWAP_USDC
    ELSE IF d > 0 THEN d < CYCLE_MIN_SELL_USDC
    ELSE UsdcValueInWeth(-d, price) < CYCLE_MIN_SELL_WETH

C19_SwapCarriesMinimumOutput ==
    [][\A s \in Slots :
          (pc[s] = "r_bal" /\ Submitted("swap")) =>
             LET tx == mempool'[Len(mempool')]
                 quote == expectedOutput(tx.arg[1], tx.arg[2], WethPrice(loc[s].snap))
             IN  /\ tx.arg[3] = (quote * (10000 - SLIPPAGE_BPS)) \div 10000
                 /\ quote > 0 => tx.arg[3] > 0]_vars

\* C20: the tick the new range is computed from is the pool's tick read after
\* the rebalance phase, not the snapshot taken at the start of the evaluation,
\* also when the swap was skipped; the mint carries the range around that tick.
C20_RangeFromTickAfterRebalance ==
    [][\A s \in Slots :
          /\ (pc'[s] = "m_bal" /\ loc'[s].ntick # loc[s].ntick) => loc'[s].ntick = tick
          /\ (pc[s] = "m_bal" /\ Submitted("mint")) =>
                mempool'[Len(mempool')].arg = RangeOf(loc[s].ntick)]_vars


-----------------------------------------------------------------------------
\* Properties of the range computation

InLimits(x) == MIN_TICK <= x /\ x <= MAX_TICK

\* C21: for every tick within the global limits and every positive spacing the
\* range executeFullRebalance computes has lower < upper, both bounds multiples
\* of the spacing, and both within [MIN_TICK, MAX_TICK].
C21_RangeWellFormed ==
    (range.n >= 1 /\ range.impl \in {"executeFullRebalance", "executeFullRebalance (older)"}) =>
        /\ range.first[1] < range.first[2]
        /\ range.first[1] % range.sp = 0
        /\ range.first[2] % range.sp = 0
        /\ InLimits(range.first[1])
        /\ InLimits(range.first[2])

C23_ExactWindow ==
    (/\ range.n >= 1
     /\ range.impl \in {"executeFullRebalance", "runLifeCycle"}
     /\ (range.t - WIDTH) % range.sp = 0
     /\ (range.t + WIDTH) % range.sp = 0
     /\ InLimits(range.t - WIDTH)
     /\ InLimits(range.t + WIDTH))
        => range.first = <<range.t - WIDTH, range.t + WIDTH>>

\* Tick 0 with spacing 10 gave [-2000, 2000].
C23_Witness ==
    /\ range.n >= 1
    /\ range.impl = "executeFullRebalance"
    /\ range.t = 0
    /\ range.sp = 10
    /\ range.first = <<-2000, 2000>>


-----------------------------------------------------------------------------
\* Properties of withRetry

RetryOver == retry.st \in {"returned", "thrown"}

\* C24: withRetry terminates when the operation does; it invokes the operation
\* at most maxAttempts + 1 times, returns the value of the first invocation
\* that succeeds, and invokes nothing after a success (or after it threw).
C24_RetryBoundedAndStops ==
    /\ [](/\ retry.calls <= retry.arg + 1
          /\ retry.st = "returned" =>
                /\ retry.result = retry.calls
                /\ Len(retry.errors) = retry.calls - 1)
    /\ [][RetryOver => UNCHANGED retry]_vars
    /\ <>RetryOver

\* The operation succeeded on the last retry allowed.
C24_Witness ==
    /\ retry.st = "returned"
    /\ retry.arg = 2
    /\ retry.calls = 3

\* C25: the delay before the k-th retry is 1000 * k, whatever retries argument
\* the call was made with: delays are positive and strictly increasing.
C25_DelayLinearInRetryIndex ==
    \A k \in 1..Len(retry.delays) : retry.delays[k] = RETRY_BASE_MS * k

\* C26: when every attempt failed, the error thrown to the caller is the error
\* the operation raised in the final attempt, as it was raised.
C26_ErrorPropagatedUnchanged ==
    retry.st = "thrown" =>
        /\ Len(retry.errors) = retry.calls
        /\ retry.thrown = retry.errors[retry.calls]
        /\ retry.thrown.attempt = retry.calls
        /\ retry.thrown.kind \in ErrKinds

\* Three attempts failed with different errors and the last one was thrown.
C26_Witness ==
    /\ retry.st = "thrown"
    /\ retry.calls = 3
    /\ retry.errors[1].kind # retry.errors[3].kind
    /\ retry.thrown = retry.errors[3]


-----------------------------------------------------------------------------
\* Properties of waitWithTimeout and of the state file

\* The wait of slot s, made through waitWithTimeout, ends in this step.
WaitEnds(s) == program = "cycle" /\ pc[s] \in WaitPcs /\ pc'[s] # pc[s]

\* C27: waitWithTimeout races the confirmation against a timer.  If the timer
\* fires first the call fails with TIMEOUT and the transaction is still
\* pending (it may settle later); if the confirmation arrives first the call
\* never fails with TIMEOUT, and with a receipt of success the invocation goes
\* on; a null receipt fails with an error of its own.
C27_TimeoutDoesNotCancel ==
    [][\A s \in Slots :
          WaitEnds(s) =>
             IF loc[s].rcpt = "none"
             THEN /\ lastEval' = [res |-> "error", err |-> "TIMEOUT"]
                  /\ mempool' = mempool
                  /\ \E i \in 1..Len(mempool) : mempool[i].nonce = loc[s].wait
                  /\ UNCHANGED <<tick, owned, pos, nextTokenId, allowance>>
             ELSE /\ lastEval'.err # "TIMEOUT"
                  /\ loc[s].rcpt = "ok" =>
                        (pc'[s] \notin {"idle", "sleep"} \/ lastEval'.res # "error")
                  /\ waitWithTimeout("receipt").ok
                  /\ ~waitWithTimeout("null").ok
                  /\ waitWithTimeout("null").err \notin {"none", "TIMEOUT"}]_vars

\* The wait for a mint timed out and the mint settled afterwards: the account
\* owns a position and no record names it.
C27_Witness ==
    /\ program = "cycle"
    /\ lastEval = [res |-> "error", err |-> "TIMEOUT"]
    /\ mempool = <<>>
    /\ owned0 = 0
    /\ Len(owned) = 1
    /\ stateFile.tokenId = None
    /\ ~mintLost
    /\ \A s \in Slots : pc[s] \notin WaitPcs


\* The text is the text of a record with both fields.
WellFormed(text) ==
    \E id \in TokenIds, t \in Times \cup {"0"} : text = JSONstringify(BotState(id, t))

\* C28: loadState never throws: it returns the record the file holds, and the
\* default record (tokenId "0", lastCheck 0) when the file is absent,
\* unreadable or does not hold a well-formed record.
C28_LoadStateDefaults ==
    disk.loads > 0 =>
        IF disk.exists /\ disk.readable /\ WellFormed(disk.loadedBytes)
        THEN JSONstringify(disk.loaded) = disk.loadedBytes
        ELSE disk.loaded = DefaultState

\* C29: a load, also one made after the process was interrupted in the middle
\* of a save, returns the complete record the file held before the save or the
\* complete record being saved.
C29_SaveIsAtomic ==
    (disk.loads > 0 /\ disk.saves > 0 /\ disk.st = "idle"
        /\ disk.loadedBytes = disk.bytes /\ WellFormed(disk.before)) =>
        JSONstringify(disk.loaded) \in {disk.before, disk.target}


\* The awaits of one rebalance invocation, from the exit to the mint.
RebalancePcs == {"x_pos", "x_dec_wait", "x_col_wait", "x_multi_wait", "r_bal",
                 "r_swap_wait", "f_slot0", "m_bal", "m_wait"}

\* C30: a rebalance invocation that completes successfully persists the
\* identifier of the position it just minted: loadState then returns that
\* identifier, which is not none and differs from the one the invocation was
\* given; the record is written only in the step that has the receipt of the
\* confirmed mint, and in no earlier step of the invocation.
C30_MintedIdPersisted ==
    [][\A s \in Slots :
          /\ (pc[s] \in RebalancePcs /\ pc'[s] # pc[s] /\ lastEval'.res = "minted") =>
                /\ pc[s] = "m_wait"
                /\ loc[s].rcpt = "ok"
                /\ loc[s].newId \in SeqToSet(owned)
                /\ loadState'.tokenId = loc[s].newId
                /\ loadState'.tokenId # None
                /\ loadState'.tokenId # loc[s].old
          /\ (pc[s] \in RebalancePcs /\ pc'[s] # pc[s] /\ stateFile' # stateFile) =>
                /\ pc[s] = "m_wait"
                /\ loc[s].rcpt = "ok"
                /\ lastEval'.res = "minted"]_vars

\* An invocation given position 1 has minted position 2 and saved it.
C30_Witness ==
    /\ lastEval.res = "minted"
    /\ stateFile.tokenId = 2
    /\ 2 \in SeqToSet(owned)
    /\ owned0 = 1
    /\ 1 \notin SeqToSet(owned)

\* ------------------------------------------------ the hedge throttle
\* adjustHedge is called in this step.
HedgeCalled == nHedge' = nHedge + 1

\* C31: adjustHedge is called at most once per HEDGE_CHECK_INTERVAL_MS: a call
\* is at least one interval later than the call before it, whether that one
\* returned or threw.
C31_HedgeOncePerInterval ==
    [][HedgeCalled /\ hedgeAt # -1 => now - hedgeAt >= HEDGE_CHECK_INTERVAL_MS]_vars

\* ------------------------------------------ the in-range evaluation
\* Evaluations that are about to compare the tick they read with the range of
\* the tracked position, which holds it (the closed-position branches of
\* part_000:170-174, part_002:101-105 and part_003:1007-1011 excepted).
InRangeEvals ==
    {s \in Slots :
        /\ pc[s] \in {"strat_pos", "c_pos"}
        /\ loc[s].tokenId \in DOMAIN pos
        /\ LET p == pos[loc[s].tokenId] IN
           /\ p.tl <= loc[s].snap /\ loc[s].snap <= p.tu
           /\ IF program = "bot" THEN p.liq # 0 ELSE ~(p.liq = 0 /\ p.tl = 0)}

\* Evaluations waiting for adjustHedge.
Hedging == {s \in Slots : pc[s] = "hedge"}

TrackedOutOfRange(s, t) ==
    /\ loc[s].tokenId \in DOMAIN pos
    /\ LET p == pos[loc[s].tokenId] IN
       /\ p.liq # 0
       /\ t < p.tl \/ t > p.tu

\* C33: an ACTIVE evaluation that passes the health check while the tick on
\* the ledger is outside the range of the tracked position goes on to the
\* range test, whatever the time of the last hedge adjustment, and the range
\* test, once it has the position, starts the rebalance (once: the evaluation
\* is then inside executeFullRebalance).
C33_OutOfRangeRebalances ==
    [][\A s \in Slots :
          /\ ( /\ pc[s] = "health"
               /\ pc'[s] \notin {"health", "alert"}
               /\ lastEval'.res # "error"
               /\ TrackedOutOfRange(s, tick)
               => pc'[s] = "strat_pool" )
          /\ ( /\ pc[s] \in {"strat_pos", "c_pos"}
               /\ pc'[s] # pc[s]
               /\ lastEval'.res # "error"
               /\ TrackedOutOfRange(s, loc[s].snap)
               => pc'[s] = "x_pos" /\ loc'[s].old = loc[s].tokenId )]_vars

\* ---------------------------------------------------- the reconnect
\* The transport reconnects in this step (setupEventListeners is run by the
\* reconnect callback).
Reconnected == nReconnect' = nReconnect + 1

\* C34: a reconnect re-binds the block listener and nothing else: the mode,
\* the single-flight guard, the hedge timestamp and the PositionRecord are
\* after setupEventListeners what they were before it, and the evaluation in
\* flight is not disturbed.
C34_ReconnectFrame ==
    [][Reconnected => /\ listeners' = 1
                      /\ UNCHANGED <<isSafeMode, isProcessing, lastHedgeTime, stateFile>>
                      /\ UNCHANGED <<pc, loc>>]_vars

\* The transport has reconnected during an evaluation, after a hedge
\* adjustment, with a position tracked.
C34_Witness ==
    /\ nReconnect > 0
    /\ isProcessing
    /\ lastHedgeTime > 0
    /\ stateFile.tokenId # None

\* ------------------------------------- the outcome of a rebalance
\* Runs of the rebalance protocol that were started for a tracked position
\* found out of range.
RebalancingFromActive == {s \in Slots : pc[s] \in RebalancePcs /\ loc[s].old # None}

\* C35: when a rebalance started from ACTIVE for an out-of-range position ends
\* without a new identifier, the PositionRecord names no position afterwards
\* (SCANNING: the next evaluation starts from no tracked position); when it
\* ends with a new identifier the record names a position (ACTIVE).
C35_FailedRebalanceRevertsToScanning ==
    [][\A s \in RebalancingFromActive :
          pc'[s] \in Quiet =>
            IF lastEval'.res = "minted"
            THEN loadState'.tokenId # None
            ELSE loadState'.tokenId = None]_vars

\* ------------------------------------------ re-running after a failure
\* The PositionRecord names a token that an exit of this program has retired.
RetiredRecord ==
    /\ owned0 >= 1
    /\ stateFile.tokenId # None
    /\ stateFile.tokenId \notin DOMAIN pos

\* Failures of a ledger operation that come from outside the program: the RPC
\* call, the submission, a reverted transaction, a wait that timed out or
\* found the transaction dropped.
OutsideFailures ==
    {"rpc", "submit", "revert", waitWithTimeout("timer").err, waitWithTimeout("null").err}

\* C36: re-running from phase 1 is safe: once an exit has retired the old
\* token and a later phase has failed, a later evaluation (one that is not
\* itself inside the rebalance that retired the token) fails only when one of
\* its ledger operations fails from outside; an evaluation in which every
\* operation succeeds does not end with an error, so the scheduler does not
\* stay with a record that names the retired token while every evaluation
\* fails.
C36_RerunRecovers ==
    [][\A s \in Evaluating :
          /\ RetiredRecord
          /\ pc[s] \notin RebalancePcs
          /\ pc'[s] \in Quiet
          /\ lastEval'.res = "error"
          => lastEval'.err \in OutsideFailures]_vars

\* ------------------------------------------------ the block listener
\* The evaluations that a step starts from the idle scheduler.
Started == {s \in Slots : pc[s] = "idle" /\ pc'[s] \notin Quiet}

\* C37: listeners do not accumulate: at most one block listener is bound at
\* any time, exactly one after every reconnect (and after every other
\* re-bind), and the delivery of one block starts at most one evaluation.
C37_OneListener ==
    [][/\ listeners' <= 1
       /\ (Reconnected \/ listeners' # listeners => listeners' = 1)
       /\ (Trigger => Cardinality(Started) <= 1)]_vars

\* The transport has reconnected as often as the model lets it and a block
\* delivered afterwards has started an evaluation.
C37_Witness ==
    /\ nReconnect = MaxReconnects
    /\ listeners = 1
    /\ lastTrig = "started"
    /\ isProcessing

\* ------------------------------------- the range and the tick it is for
\* The lowest and the highest tick a position of this spacing can have as a
\* bound: part_003:921-922
MinUsableTick(sp) == CeilDiv(MIN_TICK, sp) * sp
MaxUsableTick(sp) == FloorDiv(MAX_TICK, sp) * sp

\* C38: the range executeFullRebalance computes contains the tick it was
\* computed from, for every tick within the global limits, so the scheduler's
\* test (tick < lower or tick > upper) does not find the new position out of
\* range at an unchanged price.
C38_RangeContainsTick ==
    (range.n >= 1 /\ range.impl = "executeFullRebalance" /\ InLimits(range.t)) =>
        /\ range.first[1] <= range.t
        /\ range.t <= range.first[2]
        /\ ~isOutOfRange(range.t, [tl |-> range.first[1], tu |-> range.first[2]])

\* C38, amended: the same for every tick between the lowest and the highest
\* bound a position of the pool's spacing can have, the spacing being no wider
\* than the window's half-width (as the spacing of every fee tier is).
C38_RangeContainsUsableTick ==
    (/\ range.n >= 1
     /\ range.impl = "executeFullRebalance"
     /\ range.sp <= WIDTH
     /\ MinUsableTick(range.sp) <= range.t
     /\ range.t <= MaxUsableTick(range.sp)) =>
        /\ range.first[1] <= range.t
        /\ range.t <= range.first[2]
        /\ ~isOutOfRange(range.t, [tl |-> range.first[1], tu |-> range.first[2]])

\* The highest usable tick of spacing 60 gave a clamped range that ends at it.
C38_Witness ==
    /\ range.n >= 1
    /\ range.impl = "executeFullRebalance"
    /\ range.sp = 60
    /\ range.t = MaxUsableTick(60)
    /\ range.first = <<885180, 887220>>

\* ------------------------------------- one submission per evaluation
\* The kinds of transaction of the exit, the swap and the mint.
MutatingKinds == {"decreaseLiquidity", "collect", "burn", "multicall", "swap", "mint"}

\* How often the evaluation in slot s has submitted a transaction of a kind.
TimesSubmitted(s, kind) == Cardinality({i \in 1..Len(loc[s].ops) : loc[s].ops[i] = kind})

\* C39: within one evaluation each mutating ledger operation (of the exit, the
\* swap, the mint) is submitted at most once: a failed or timed-out one ends
\* the phase and is not submitted again by the same evaluation.
C39_SubmittedOncePerEvaluation ==
    \A s \in Slots : \A kind \in MutatingKinds : TimesSubmitted(s, kind) <= 1

\* The wait for the exit's multicall has timed out with the multicall still
\* pending, and the evaluation has ended without submitting it again.
C39_Witness ==
    /\ program = "cycle"
    /\ lastEval = [res |-> "error", err |-> "TIMEOUT"]
    /\ Len(mempool) = 1
    /\ mempool[1].kind = "multicall"
    /\ \A s \in Slots : pc[s] \in Quiet

====
